---- MODULE Spec2Model ----
(***************************************************************************)
(* Kafka datasource for Grafana: the streaming bridge of                   *)
(* pkg/plugin/plugin.go (KafkaDatasource.RunStream) over the consumer      *)
(* wrapper of pkg/kafka_helper/client.go (KafkaClient).                    *)
(*                                                                         *)
(* One datasource instance holds ONE KafkaClient value (plugin.go:59-61);  *)
(* every RunStream call on the instance runs in its own goroutine and      *)
(* works on that client through a pointer receiver.                        *)
(***************************************************************************)
EXTENDS Integers, Sequences, FiniteSets, TLC

\* Number of RunStream invocations on the datasource instance.
MaxStreams == 2
\* Number of ConsumerPull calls the whole process performs.
MaxPolls == 2

Streams == 1..MaxStreams

(***************************************************************************)
(* Message payloads.  A payload is the text of kafka.Message.Value, kept   *)
(* as its JSON structure: t is "syntax" for text that is not JSON, "array" *)
(* for a JSON value that is no object, "object" for an object whose        *)
(* members m are listed in source order.  A member value is a number       *)
(* (t = "num") or a JSON string (t = "str").                               *)
(***************************************************************************)
Num(n) == [t |-> "num", n |-> n]
Str == [t |-> "str", n |-> 0]
Member(k, v) == [k |-> k, v |-> v]

\* {"a": 1, "b": 2}
PayloadAB == [t |-> "object", m |-> <<Member("a", Num(1)), Member("b", Num(2))>>]
\* {"b": "x"}
PayloadMixed == [t |-> "object", m |-> <<Member("b", Str)>>]
\* {"a": 1
PayloadSyntax == [t |-> "syntax", m |-> <<>>]
\* {}
PayloadEmpty == [t |-> "object", m |-> <<>>]
NoPayload == [t |-> "none", m |-> <<>>]

Payloads == {PayloadAB, PayloadMixed, PayloadSyntax, PayloadEmpty}

\* The nil KafkaMessage (a map[string]float64 that was never made).
NilMessage == <<>>

\* Index of the last member of m that carries key k (a later member of a
\* JSON object overwrites an earlier one in the Go map).
LastOf(m, k) == CHOOSE i \in DOMAIN m : m[i].k = k /\ \A j \in DOMAIN m : m[j].k = k => j <= i

\* json.Unmarshal(payload, &message) with message a nil map[string]float64:
\* invalid text leaves the map untouched; a non-object leaves it nil and
\* reports a type error; an object makes the map, stores every number and
\* stores the zero value (and reports a type error) for a non-number.
Unmarshal(p) ==
    IF p.t = "object"
    THEN [err |-> \E i \in DOMAIN p.m : p.m[i].v.t # "num",
          message |-> [k \in {p.m[i].k : i \in DOMAIN p.m} |->
                          IF p.m[LastOf(p.m, k)].v.t = "num" THEN p.m[LastOf(p.m, k)].v.n ELSE 0]]
    ELSE [err |-> TRUE, message |-> NilMessage]

(***************************************************************************)
(* Events of kafka.Consumer.Poll.                                          *)
(***************************************************************************)
NilEvent == [type |-> "nil", payload |-> NoPayload, code |-> "none"]
MessageEvent(p) == [type |-> "Message", payload |-> p, code |-> "none"]
ErrorEvent(c) == [type |-> "Error", payload |-> NoPayload, code |-> c]
OtherEvent == [type |-> "Other", payload |-> NoPayload, code |-> "none"]

ErrAllBrokersDown == "ErrAllBrokersDown"
ErrTransport == "ErrTransport"

Events == {NilEvent, OtherEvent, ErrorEvent(ErrAllBrokersDown), ErrorEvent(ErrTransport)}
              \cup {MessageEvent(p) : p \in Payloads}

\* The event carries a message whose payload is a flat string-to-number mapping.
Decodable(e) == e.type = "Message" /\ ~Unmarshal(e.payload).err

VARIABLES
    pc,         \* pc[s]: where RunStream call s stands
    cancelled,  \* cancelled[s]: ctx.Done() of call s is closed
    timer,      \* timer[s]: the channel of time.After(time.Second) holds a value
    handles,    \* the kafka.Consumer objects made so far, in creation order
    writes,     \* the stores to ds.client.Consumer, in the order memory took them
    view,       \* view[s]: the latest of these stores goroutine s has observed
    sent,       \* sent[s]: the frames handed to sender.SendFrame of call s
    polls,      \* polls[s]: ConsumerPull calls made by call s
    hist,       \* hist[s]: the polls call s had made when its context was cancelled
    panic,      \* the panic that ended the process, if any
    reply       \* the latest call of a request handler and what it returned

vars == <<pc, cancelled, timer, handles, writes, view, sent, polls, hist, panic, reply>>

NoPanic == [by |-> 0, at |-> "none"]

\* No request handler has returned yet.  A reply is the handler that
\* returned last, its request, its result, and the number n of handler
\* calls that have returned so far.
NoReply == [n |-> 0, op |-> "none", req |-> <<>>, res |-> <<>>]

\* The process is up: no goroutine has panicked.
Running == panic = NoPanic

\* The (topic, partition) subscription s asks for.
RequestOf(s) == IF s % 2 = 1 THEN [topic |-> "t1", partition |-> 0]
                ELSE [topic |-> "t2", partition |-> 1]

\* var qm queryModel (plugin.go:175): declared, never filled from req.
qm == [Topic |-> "", Partition |-> 0, WithStreaming |-> FALSE]
\* var offset int64 = -1 (plugin.go:177): the latest offset.
OffsetLatest == 0 - 1

RECURSIVE SumTo(_, _)
SumTo(f, n) == IF n = 0 THEN 0 ELSE f[n] + SumTo(f, n - 1)
TotalPolls == SumTo(polls, MaxStreams)

Init ==
    /\ pc = [s \in Streams |-> "idle"]
    /\ cancelled = [s \in Streams |-> FALSE]
    /\ timer = [s \in Streams |-> FALSE]
    /\ handles = <<>>
    /\ writes = <<>>
    /\ view = [s \in Streams |-> 0]
    /\ sent = [s \in Streams |-> <<>>]
    /\ polls = [s \in Streams |-> 0]
    /\ hist = [s \in Streams |-> 0]
    /\ panic = NoPanic
    /\ reply = NoReply

(***************************************************************************)
(* KafkaClient (client.go).                                                *)
(***************************************************************************)

\* kafka.NewConsumer: a new consumer object, made by caller s.  No code of
\* the repository calls Close on a consumer, so closed never changes.
NewConsumer(s) == [owner |-> s, assigned |-> <<>>, polledBy |-> {}, probedBy |-> {},
                   closed |-> FALSE]

\* The nil *kafka.Consumer.
NilConsumer == 0

\* client.Consumer as goroutine s may read it: the store it observed last or
\* any later one (the field is written and read without synchronisation).
Visible(s) == view[s]..Len(writes)

\* ConsumerInitialize: makes a consumer and stores it in client.Consumer;
\* when kafka.NewConsumer fails it stores nil and panics.
ConsumerInitialize(s, ok) ==
    /\ view' = [view EXCEPT ![s] = Len(writes) + 1]
    /\ IF ok
       THEN /\ handles' = Append(handles, NewConsumer(s))
            /\ writes' = Append(writes, Len(handles) + 1)
            /\ panic' = panic
       ELSE /\ handles' = handles
            /\ writes' = Append(writes, NilConsumer)
            /\ panic' = [by |-> s, at |-> "ConsumerInitialize"]

\* TopicAssign: Assign on the consumer client.Consumer holds for the caller
\* (the i-th store); panics when Assign fails.
TopicAssign(s, i, topic, partition, offset, ok) ==
    /\ view' = [view EXCEPT ![s] = i]
    /\ IF ok
       THEN /\ handles' = [handles EXCEPT ![writes[i]].assigned =
                               Append(@, [by |-> s, topic |-> topic,
                                          partition |-> partition, offset |-> offset])]
            /\ panic' = panic
       ELSE /\ handles' = handles
            /\ panic' = [by |-> s, at |-> "TopicAssign"]

\* What ConsumerPull makes of the event e of Poll: the decoded message and
\* the event, or a panic for the all-brokers-down error.  The error of
\* json.Unmarshal is dropped.
ConsumerPull(e) ==
    [message |-> IF e.type = "Message" THEN Unmarshal(e.payload).message ELSE NilMessage,
     event |-> e,
     panics |-> e.type = "Error" /\ e.code = ErrAllBrokersDown]

(***************************************************************************)
(* KafkaDatasource.RunStream (plugin.go:173-220).                          *)
(***************************************************************************)

\* All orders in which `for key, value := range msg_data` may visit the map.
RECURSIVE Orders(_)
Orders(K) == IF K = {} THEN {<<>>}
             ELSE UNION {{<<k>> \o o : o \in Orders(K \ {k})} : k \in K}

\* The first field of every frame: "time", one value, time.Now().
TimeField == [name |-> "time", val |-> 0]

\* A frame whose value cells are all written through the first key.
FieldsFirstValue(message, order) ==
    <<TimeField>> \o [i \in 1..Len(order) |-> [name |-> order[i], val |-> message[order[1]]]]

\* The frame of plugin.go:199-212: the time field, then one field per key
\* of msg_data, in the order the range statement visits them.
Fields(message, order) ==
    <<TimeField>> \o [i \in 1..Len(order) |-> [name |-> order[i], val |-> message[order[i]]]]

\* RunStream is called: ConsumerInitialize (plugin.go:173-176).
RunStream(s) ==
    /\ Running
    /\ pc[s] = "idle"
    /\ \A r \in Streams : r < s => pc[r] # "idle"
    /\ \E ok \in BOOLEAN :
          /\ ConsumerInitialize(s, ok)
          /\ pc' = [pc EXCEPT ![s] = IF ok THEN "assign" ELSE "panicked"]
    /\ UNCHANGED <<cancelled, timer, sent, polls, hist, reply>>

\* ds.client.TopicAssign(topic, partition, offset) (plugin.go:177-182); the
\* loop then reaches its first select, whose time.After starts a timer.
RunStreamAssign(s) ==
    /\ Running
    /\ pc[s] = "assign"
    /\ \E i \in Visible(s), ok \in BOOLEAN :
          /\ TopicAssign(s, i, qm.Topic, qm.Partition, OffsetLatest, ok)
          /\ pc' = [pc EXCEPT ![s] = IF ok THEN "select" ELSE "panicked"]
    /\ UNCHANGED <<cancelled, timer, writes, sent, polls, hist, reply>>

\* The context of subscription s is cancelled (by Grafana, from outside)
\* while the loop waits in its select.  A cancellation that comes earlier,
\* during ConsumerInitialize or TopicAssign, is not looked at before the
\* first select either, and is this action taken right after RunStreamAssign.
CtxCancel(s) ==
    /\ Running
    /\ pc[s] = "select"
    /\ ~cancelled[s]
    /\ cancelled' = [cancelled EXCEPT ![s] = TRUE]
    /\ hist' = [hist EXCEPT ![s] = polls[s]]
    /\ UNCHANGED <<pc, timer, handles, writes, view, sent, polls, panic, reply>>

\* The second of time.After(time.Second) elapses: its channel gets a value.
\* The timer is started by the select itself, and a select that finds
\* ctx.Done() closed does not wait: the loop takes its step well within the
\* second, so the timer of a cancelled loop does not elapse under it.
TimeAfter(s) ==
    /\ Running
    /\ pc[s] = "select"
    /\ ~timer[s]
    /\ ~cancelled[s]
    /\ timer' = [timer EXCEPT ![s] = TRUE]
    /\ UNCHANGED <<pc, cancelled, handles, writes, view, sent, polls, hist, panic, reply>>

\* A select whose timer case can always proceed (time.After(0), or a
\* default case that polls).
ReadyAtOnce(s) == (IF cancelled[s] THEN {"ctx.Done"} ELSE {}) \cup {"time.After"}

\* The cases of the select statement that can proceed (plugin.go:188-192);
\* when both can, Go picks one of them at random.
Ready(s) == (IF cancelled[s] THEN {"ctx.Done"} ELSE {}) \cup (IF timer[s] THEN {"time.After"} ELSE {})

\* case <-ctx.Done(): return nil (plugin.go:189-191).
SelectCtxDone(s) ==
    /\ Running
    /\ pc[s] = "select"
    /\ "ctx.Done" \in Ready(s)
    /\ pc' = [pc EXCEPT ![s] = "done"]
    /\ timer' = [timer EXCEPT ![s] = FALSE]
    /\ UNCHANGED <<cancelled, handles, writes, view, sent, polls, hist, panic, reply>>

\* A loop that treats the nil event like any other event.
SendsAlways(r) == TRUE

\* Whether the iteration goes on to build and send a frame after
\* ConsumerPull returned r (plugin.go:195-198): only a nil event continues.
Sends(r) == r.event # NilEvent

\* A sender call that is repeated when it fails.
SendFrameRetry(log, row) == IF row.err THEN Append(Append(log, row), row) ELSE Append(log, row)

\* sender.SendFrame(frame, data.IncludeAll) (plugin.go:213): the frame is
\* handed to the sender once, whatever the outcome.
SendFrame(log, row) == Append(log, row)

\* A loop that gives up when a frame cannot be sent.
AfterSendReturn(err) == IF err THEN "done" ELSE "select"

\* Where RunStream stands after SendFrame returned (plugin.go:213-219): an
\* error is logged and the loop continues, as it does after a success.
AfterSend(err) == "select"

\* One iteration of the loop body (plugin.go:194-218) in which ConsumerPull
\* works on the consumer of the i-th store and Poll returns event e: the
\* frame, SendFrame; then the next select, with a new timer.
Iteration(s, i, e) ==
    LET r == ConsumerPull(e) IN
    /\ polls' = [polls EXCEPT ![s] = @ + 1]
    /\ view' = [view EXCEPT ![s] = i]
    /\ handles' = [handles EXCEPT ![writes[i]].polledBy = @ \cup {s}]
    /\ IF r.panics
       THEN /\ panic' = [by |-> s, at |-> "ConsumerPull"]
            /\ pc' = [pc EXCEPT ![s] = "panicked"]
            /\ UNCHANGED <<sent, timer>>
       ELSE /\ panic' = panic
            /\ timer' = [timer EXCEPT ![s] = FALSE]
            /\ IF Sends(r)
               THEN \E o \in Orders(DOMAIN r.message), err \in BOOLEAN :
                       /\ sent' = [sent EXCEPT ![s] =
                                      SendFrame(@, [poll |-> polls'[s], ev |-> r.event,
                                                    cols |-> Fields(r.message, o), err |-> err])]
                       /\ pc' = [pc EXCEPT ![s] = AfterSend(err)]
               ELSE UNCHANGED <<sent, pc>>
    /\ UNCHANGED <<cancelled, writes, hist, reply>>

\* case <-time.After(time.Second) (plugin.go:192-218): ConsumerPull on the
\* consumer client.Consumer holds for the caller, with any event of Poll.
SelectTimeAfter(s) ==
    /\ Running
    /\ pc[s] = "select"
    /\ "time.After" \in Ready(s)
    /\ TotalPolls < MaxPolls
    /\ \E i \in Visible(s), e \in Events : Iteration(s, i, e)

Next ==
    \E s \in Streams :
        \/ RunStream(s)
        \/ RunStreamAssign(s)
        \/ CtxCancel(s)
        \/ TimeAfter(s)
        \/ SelectCtxDone(s)
        \/ SelectTimeAfter(s)

Spec == Init /\ [][Next]_vars

\* The Go scheduler runs every runnable goroutine: a loop whose select has a
\* case that can proceed takes its step.
Fairness == \A s \in Streams : WF_vars(SelectCtxDone(s) \/ SelectTimeAfter(s))

FairSpec == Spec /\ Fairness

(***************************************************************************)
(* The request handlers of KafkaDatasource (plugin.go:74-169, 223-230).    *)
(* Grafana calls them at any time, each call in its own goroutine, while   *)
(* RunStream calls are running on the same instance.                       *)
(***************************************************************************)

\* Number of request handler calls on the datasource instance.
MaxCalls == 2
\* The outcomes of Consumer.GetMetadata: no error, or a kafka.Error code.
NoError == "nil"
ErrTimedOut == "ErrTimedOut"
Probes == {NoError, ErrTransport, ErrTimedOut}

\* The consumers made by health checks; check c is caller 0 - c.
Probed == {h \in DOMAIN handles : handles[h].owner < 0}

\* A health check that reports whatever error the probe gave.
HealthCheckAnyError(err) == err

\* What KafkaClient.HealthCheck returns when GetMetadata returned err
\* (client.go:89-95): the error when its code is ErrTransport, else nil.
HealthCheck(err) == IF err # NoError /\ err = ErrTransport THEN err ELSE NoError

\* The result of CheckHealth for the error of HealthCheck (plugin.go:142-153).
CheckHealthResult(err) ==
    IF err # NoError
    THEN [Status |-> "ERROR", Message |-> "Cannot connect to the brokers."]
    ELSE [Status |-> "OK", Message |-> "Data source is working..."]

\* A HealthCheck with a pointer receiver: its ConsumerInitialize stores the
\* consumer in the client of the instance.
PointerReceiver(w, h) == Append(w, h)

\* func (client KafkaClient) HealthCheck() has a value receiver
\* (client.go:86): client is a copy of d.client, ConsumerInitialize stores
\* consumer h in the copy, and the stores w to the client of the instance
\* stay as they are.
ValueReceiver(w, h) == w

\* CheckHealth (plugin.go:140-154) with HealthCheck (client.go:86-96):
\* ConsumerInitialize on the copy makes a consumer (or panics), GetMetadata
\* is called on it, and the result is made from its error.
CheckHealth ==
    /\ Running
    /\ reply.n < MaxCalls
    /\ \E ok \in BOOLEAN, probe \in Probes :
          LET c == 0 - (Cardinality(Probed) + 1) IN
          IF ok
          THEN /\ handles' = Append(handles, [NewConsumer(c) EXCEPT !.probedBy = {c}])
               /\ writes' = ValueReceiver(writes, Len(handles) + 1)
               /\ reply' = [n |-> reply.n + 1, op |-> "CheckHealth", req |-> probe,
                            res |-> CheckHealthResult(HealthCheck(probe))]
               /\ panic' = panic
          ELSE /\ panic' = [by |-> c, at |-> "ConsumerInitialize"]
               /\ UNCHANGED <<handles, writes, reply>>
    /\ UNCHANGED <<pc, cancelled, timer, view, sent, polls, hist>>

\* A subscribe handler that compares the path without regard to case.
SubscribeStreamFold(path) == IF path \in {"stream", "Stream"} THEN "OK" ELSE "PermissionDenied"

\* The status of SubscribeStream for req.Path (plugin.go:161-165).
SubscribeStreamStatus(path) == IF path = "stream" THEN "OK" ELSE "PermissionDenied"

Paths == {"stream", "Stream", ""}

\* SubscribeStream (plugin.go:158-169).
SubscribeStream ==
    /\ Running
    /\ reply.n < MaxCalls
    /\ \E path \in Paths :
          reply' = [n |-> reply.n + 1, op |-> "SubscribeStream", req |-> path,
                    res |-> SubscribeStreamStatus(path)]
    /\ UNCHANGED <<pc, cancelled, timer, handles, writes, view, sent, polls, hist, panic>>

\* A publish handler that accepts what is published on the stream path.
PublishStreamOnPath(path, data) == SubscribeStreamStatus(path)

\* The status of PublishStream (plugin.go:227-229).
PublishStreamStatus(path, data) == "PermissionDenied"

\* The payloads of a publish request: none, and bytes that are no JSON.
PublishData == {"", "garbage"}

\* PublishStream (plugin.go:223-230).
PublishStream ==
    /\ Running
    /\ reply.n < MaxCalls
    /\ \E path \in {"stream", ""}, data \in PublishData :
          reply' = [n |-> reply.n + 1, op |-> "PublishStream",
                    req |-> [Path |-> path, Data |-> data],
                    res |-> PublishStreamStatus(path, data)]
    /\ UNCHANGED <<pc, cancelled, timer, handles, writes, view, sent, polls, hist, panic>>

(***************************************************************************)
(* QueryData and Query (plugin.go:74-134).  The JSON of a query has the    *)
(* structure of a payload; a member value may also be true or false.       *)
(***************************************************************************)

\* Number of queries in a QueryData request.
MaxQueries == 2

Bool(b) == [t |-> "bool", n |-> IF b THEN 1 ELSE 0]

\* {"topicName": "t1", "partition": 0, "withStreaming": true}
QueryStreaming == [t |-> "object", m |-> <<Member("topicName", Str), Member("partition", Num(0)),
                                         Member("withStreaming", Bool(TRUE))>>]
\* {"topicName": "t1", "withStreaming": false}
QueryPlain == [t |-> "object", m |-> <<Member("topicName", Str), Member("withStreaming", Bool(FALSE))>>]
\* {"withStreaming": true, "partition": "0"}
QueryBadType == [t |-> "object", m |-> <<Member("withStreaming", Bool(TRUE)), Member("partition", Str)>>]
\* {"withStreaming": tru
QuerySyntax == [t |-> "syntax", m |-> <<>>]

Queries == {QueryStreaming, QueryPlain, QueryBadType, QuerySyntax}

\* The JSON type the field of queryModel tagged k takes (plugin.go:92-96);
\* a member with any other key is skipped.
FieldType(k) ==
    CASE k = "topicName" -> "str"
      [] k = "partition" -> "num"
      [] k = "withStreaming" -> "bool"
      [] OTHER -> "any"

\* json.Unmarshal(query.JSON, &qm) with qm the zero queryModel: text that
\* is no JSON object is an error; a member of the wrong type is an error
\* and leaves its field alone; every other member is stored, the last
\* member of a key winning.  Query reads WithStreaming only.
UnmarshalQuery(j) ==
    LET fits == {i \in DOMAIN j.m : j.m[i].k = "withStreaming" /\ j.m[i].v.t = "bool"}
        last == CHOOSE i \in fits : \A k \in fits : k <= i
    IN  IF j.t = "object"
        THEN [err |-> \E i \in DOMAIN j.m : FieldType(j.m[i].k) \notin {"any", j.m[i].v.t},
              qm |-> [qm EXCEPT !.WithStreaming = IF fits = {} THEN FALSE ELSE j.m[last].v.n = 1]]
        ELSE [err |-> TRUE, qm |-> qm]

\* pCtx.DataSourceInstanceSettings.UID of the instance.
UID == "kafka"

\* live.Channel{Scope: ScopeDatasource, Namespace: UID, Path: "stream"}
\* (plugin.go:122-126), and the empty channel of a frame without meta.
Channel(uid) == [Scope |-> "ds", Namespace |-> uid, Path |-> "stream"]
NoChannel == [Scope |-> "", Namespace |-> "", Path |-> ""]

\* The frame of plugin.go:111-117.
ResponseFrame == [Name |-> "response", Fields |-> <<"time", "values">>, Channel |-> NoChannel]

\* A Query that puts the channel on every frame.
QueryChannelAlways(uid, query) ==
    IF UnmarshalQuery(query.JSON).err
    THEN [Error |-> TRUE, Frames |-> <<>>]
    ELSE [Error |-> FALSE, Frames |-> <<[ResponseFrame EXCEPT !.Channel = Channel(uid)]>>]

\* Query (plugin.go:98-134): the error of Unmarshal and no frame, or one
\* frame, which carries the channel when qm.WithStreaming is set.
Query(uid, query) ==
    LET u == UnmarshalQuery(query.JSON) IN
    IF u.err
    THEN [Error |-> TRUE, Frames |-> <<>>]
    ELSE [Error |-> FALSE,
          Frames |-> <<IF u.qm.WithStreaming
                       THEN [ResponseFrame EXCEPT !.Channel = Channel(uid)]
                       ELSE ResponseFrame>>]

\* response.Responses after the loop of QueryData has handled the first n
\* queries (plugin.go:81-87): the response of each under its RefID.
RECURSIVE QueryDataLoop(_, _)
QueryDataLoop(queries, n) ==
    IF n = 0 THEN <<>>
    ELSE LET before == QueryDataLoop(queries, n - 1)
             q == queries[n]
         IN  [id \in DOMAIN before \cup {q.RefID} |->
                 IF id = q.RefID THEN Query(UID, q) ELSE before[id]]

\* The RefID Grafana gives the n-th query of a request: RefIDs identify
\* the queries of a request (plugin.go:71).
RefIDs == <<"A", "B", "C", "D">>

\* The QueryData requests: up to MaxQueries queries.
Requests ==
    UNION {[1..n -> Queries] : n \in 1..MaxQueries}

\* QueryData (plugin.go:74-90).
QueryData ==
    /\ Running
    /\ reply.n < MaxCalls
    /\ \E jsons \in Requests :
          LET queries == [i \in DOMAIN jsons |-> [RefID |-> RefIDs[i], JSON |-> jsons[i]]] IN
          reply' = [n |-> reply.n + 1, op |-> "QueryData", req |-> queries,
                    res |-> QueryDataLoop(queries, Len(queries))]
    /\ UNCHANGED <<pc, cancelled, timer, handles, writes, view, sent, polls, hist, panic>>

(***************************************************************************)
(* The datasource instance with its request handlers: the RunStream calls  *)
(* take every step of theirs, on a topic that holds no message (Poll gives *)
(* no event, or the error of a lost cluster), and Grafana calls the        *)
(* handlers at any time.                                                   *)
(***************************************************************************)
NextAll ==
    \/ \E s \in Streams :
          \/ RunStream(s)
          \/ RunStreamAssign(s)
          \/ CtxCancel(s)
          \/ TimeAfter(s)
          \/ SelectCtxDone(s)
          \/ SelectTimeAfter(s) /\ sent' = sent
    \/ CheckHealth
    \/ QueryData
    \/ SubscribeStream
    \/ PublishStream

SpecAll == Init /\ [][NextAll]_vars

(***************************************************************************)
(* Properties.                                                             *)
(***************************************************************************)

\* The consumers RunStream call s made, and those of them never closed.
Made(s) == {h \in DOMAIN handles : handles[h].owner = s}
Unreleased == {h \in DOMAIN handles : ~handles[h].closed}

\* C1: when a streaming loop has returned, every consumer it made with
\* ConsumerInitialize has been released, so no made-but-unreleased consumer
\* is left once all loops have returned.
C1_ReleasedOnExit ==
    \A s \in Streams : pc[s] = "done" => Made(s) \cap Unreleased = {}

\* C2: each loop owns its consumer: a consumer is assigned and polled by
\* the loop that made it only, and while a loop runs, client.Consumer of
\* the instance still holds the consumer that loop made.
C2_OwnConsumerOnly ==
    /\ \A h \in DOMAIN handles :
          /\ handles[h].polledBy \subseteq {handles[h].owner}
          /\ \A i \in DOMAIN handles[h].assigned : handles[h].assigned[i].by = handles[h].owner
    /\ \A s \in Streams :
          (Running /\ pc[s] \in {"assign", "select"}) => writes[Len(writes)] \in Made(s)

\* C3: when a poll of loop s returned the all-brokers-down error, loop s
\* has returned with its consumer released, the process is up, and every
\* other loop can still take its next step.
C3_FatalEndsOnlyItsLoop ==
    \A s \in Streams :
        (panic.by = s /\ panic.at = "ConsumerPull") =>
            /\ pc[s] = "done"
            /\ Made(s) \cap Unreleased = {}
            /\ \A r \in Streams \ {s} :
                  (pc[r] = "select" /\ cancelled[r]) => ENABLED SelectCtxDone(r)

\* C4: no frame handed to a sender comes from a message whose payload
\* failed to decode as a flat string-to-number mapping.
C4_NoRowOnDecodeFailure ==
    \A s \in Streams : \A i \in DOMAIN sent[s] :
        sent[s][i].ev.type = "Message" => ~Unmarshal(sent[s][i].ev.payload).err

\* C5: no frame handed to a sender comes from an error event or from any
\* other event that is not a message.
C5_NoRowOnOtherEvents ==
    \A s \in Streams : \A i \in DOMAIN sent[s] : sent[s][i].ev.type = "Message"

\* The loop of call s runs no more: it has returned, or the process is gone.
Stopped(s) == pc[s] \in {"done", "panicked"} \/ ~Running

\* C6: a loop whose context was cancelled while it waited in its select
\* starts at most one further poll, and it stops.
C6_CancelStopsLoop ==
    /\ \A s \in Streams : [](cancelled[s] => polls[s] - hist[s] <= 1)
    /\ \A s \in Streams : cancelled[s] ~> Stopped(s)

\* C6 happens: a loop cancelled at its select, when its wait interval had
\* elapsed too, has run one more poll and then returned.
C6_Witness ==
    \E s \in Streams : cancelled[s] /\ pc[s] = "done" /\ polls[s] = hist[s] + 1

\* C7: cancellation goes before a new poll: a loop that stands at its
\* select with its context cancelled starts no poll, also when the wait
\* interval has elapsed as well.
C7_CancelBeforePoll ==
    [][\A s \in Streams :
          (pc[s] = "select" /\ cancelled[s] /\ timer[s]) => polls'[s] = polls[s]]_vars

\* The loop of call s takes a step: it leaves the select or runs an iteration.
LoopStep(s) == pc'[s] # pc[s] \/ polls'[s] # polls[s] \/ sent'[s] # sent[s]

\* C8: for every requested (topic, partition): when the subscription is
\* cancelled before its first wait interval has elapsed, the step its loop
\* takes is the return, with no poll made and no frame handed to the sender.
C8_ImmediateCancel ==
    [][\A s \in Streams :
          (pc[s] = "select" /\ cancelled[s] /\ ~timer[s] /\ polls[s] = 0 /\ LoopStep(s))
              => (pc'[s] = "done" /\ polls'[s] = 0 /\ sent'[s] = <<>>)]_vars

\* C8 happens: two subscriptions, for different (topic, partition), both
\* cancelled at once, have returned without a poll or a frame.
C8_Witness ==
    /\ \A s \in {1, 2} : pc[s] = "done" /\ hist[s] = 0 /\ polls[s] = 0 /\ sent[s] = <<>>
    /\ RequestOf(1) # RequestOf(2)

\* C9: a step in which SendFrame reports a failure leaves the loop at its
\* select with a new timer, and the process up.
C9_SendFailureContinues ==
    [][\A s \in Streams :
          (Len(sent'[s]) > Len(sent[s]) /\ sent'[s][Len(sent'[s])].err)
              => (pc'[s] = "select" /\ ~timer'[s] /\ panic' = panic)]_vars

\* C9 happens: after a frame that could not be sent, the frame of a later
\* decodable message was handed to the same sender.
C9_Witness ==
    \E s \in Streams : \E i, j \in DOMAIN sent[s] :
        i < j /\ sent[s][i].err /\ Decodable(sent[s][j].ev)

\* C10: the frames handed to one sender come from polls of that loop, in
\* the order of these polls, and no poll gives more than one frame.
C10_RowsInPollOrder ==
    \A s \in Streams :
        /\ \A i \in DOMAIN sent[s] : sent[s][i].poll \in 1..polls[s]
        /\ \A i, j \in DOMAIN sent[s] : i < j => sent[s][i].poll < sent[s][j].poll

\* C10 happens: one sender got the frames of two messages, one of them
\* after a failed send.
C10_Witness ==
    \E s \in Streams :
        /\ Len(sent[s]) = 2
        /\ sent[s][1].err
        /\ \A i \in DOMAIN sent[s] : sent[s][i].ev.type = "Message"

\* C11: every Assign a subscription makes binds the (topic, partition) that
\* subscription asked for, at the latest offset.
C11_AssignsRequested ==
    \A h \in DOMAIN handles : \A i \in DOMAIN handles[h].assigned :
        LET a == handles[h].assigned[i] IN
        /\ a.offset = OffsetLatest
        /\ [topic |-> a.topic, partition |-> a.partition] = RequestOf(a.by)

\* C12: a consumer that was polled has been assigned before, no consumer is
\* assigned more than once, and all its assignments name one (topic,
\* partition).
C12_AssignOnceBeforePoll ==
    \A h \in DOMAIN handles :
        /\ handles[h].polledBy # {} => Len(handles[h].assigned) >= 1
        /\ Len(handles[h].assigned) <= 1
        /\ \A i, j \in DOMAIN handles[h].assigned :
              /\ handles[h].assigned[i].topic = handles[h].assigned[j].topic
              /\ handles[h].assigned[i].partition = handles[h].assigned[j].partition

\* C17: the row of a decoded message is the time column followed by exactly
\* one column per key of that message, each with the message's value for
\* the key, and nothing of any other message.
C17_RowOfCurrentMessage ==
    \A s \in Streams : \A n \in DOMAIN sent[s] :
        LET row == sent[s][n]
            message == ConsumerPull(row.ev).message
        IN  Decodable(row.ev) =>
               /\ row.cols[1].name = "time"
               /\ Len(row.cols) = 1 + Cardinality(DOMAIN message)
               /\ \A j \in 2..Len(row.cols) :
                     /\ row.cols[j].name \in DOMAIN message
                     /\ row.cols[j].val = message[row.cols[j].name]
               /\ \A j, k \in 2..Len(row.cols) : row.cols[j].name = row.cols[k].name => j = k

\* A loop has sent the three-column row of {"a": 1, "b": 2} and after it
\* the single-column row of {}.
C17_Witness ==
    \E s \in Streams :
        /\ Len(sent[s]) = 2
        /\ sent[s][1].ev = MessageEvent(PayloadAB) /\ Len(sent[s][1].cols) = 3
        /\ sent[s][2].ev = MessageEvent(PayloadEmpty) /\ Len(sent[s][2].cols) = 1

\* C18: an iteration whose poll returns no event hands nothing to the
\* sender and leaves the loop at its select.
C18_TimeoutSendsNothing ==
    [][\A s \in Streams :
          (\E i \in Visible(s) : SelectTimeAfter(s) /\ Iteration(s, i, NilEvent))
              => (sent' = sent /\ pc'[s] = "select" /\ panic' = panic)]_vars

\* A loop that polled twice, got no event both times, and waits again.
C18_Witness ==
    \E s \in Streams : polls[s] = 2 /\ sent[s] = <<>> /\ pc[s] = "select" /\ Running

\* C19: a loop reaches its return only with its context cancelled, whatever
\* its polls and sends gave.
C19_ReturnsOnlyOnCancel ==
    [][\A s \in Streams : (pc[s] # "done" /\ pc'[s] = "done") => cancelled[s]]_vars

\* A loop that returned after a failed send and a poll without event.
C19_Witness ==
    \E s \in Streams :
        /\ pc[s] = "done"
        /\ polls[s] = 2
        /\ Len(sent[s]) = 1 /\ sent[s][1].err

\* C13: a health check whose metadata probe fails with the transport error
\* answers ERROR with "Cannot connect to the brokers."; one whose probe
\* succeeds, or fails with any other error, answers OK.
C13_HealthResult ==
    reply.op = "CheckHealth" =>
        IF reply.req = ErrTransport
        THEN reply.res = [Status |-> "ERROR", Message |-> "Cannot connect to the brokers."]
        ELSE reply.res.Status = "OK"

\* A health check whose probe failed with a timeout has answered OK.
C13_Witness ==
    reply.op = "CheckHealth" /\ reply.req = ErrTimedOut /\ reply.res.Status = "OK"

\* The state of the RunStream calls and of the client of the instance.
streamVars == <<pc, cancelled, timer, writes, view, sent, polls, hist>>

\* The step is a call of request handler op: one that returns, or a
\* health check that panics.
Call(op) ==
    \/ reply' # reply /\ reply'.op = op
    \/ op = "CheckHealth" /\ panic' # panic /\ panic'.by < 0

\* The consumers of health checks and those of the loops are apart: a
\* consumer a health check made is never stored in the instance, never
\* assigned or polled by a loop, and probed by that health check only; no
\* health check probes the consumer of a loop.
Apart ==
    \A h \in DOMAIN handles :
        IF h \in Probed
        THEN /\ handles[h].polledBy = {}
             /\ handles[h].assigned = <<>>
             /\ handles[h].probedBy = {handles[h].owner}
             /\ \A i \in DOMAIN writes : writes[i] # h
        ELSE handles[h].probedBy = {}

\* C14: a CheckHealth or QueryData call leaves client.Consumer of the
\* instance and everything of the loops as it was; the consumer a health
\* check makes is never stored in the instance, never assigned or polled
\* by a loop, and probed by that health check only, and no health check
\* probes the consumer of a loop.
C14_HandlersShareNothing ==
    [][/\ (Call("CheckHealth") \/ Call("QueryData")) => UNCHANGED streamVars
       /\ Apart']_vars

\* A health check and then a QueryData call have returned while a loop
\* polls the consumer it made after the health check made its own.
C14_Witness ==
    /\ reply.op = "QueryData"
    /\ \E h \in Probed : \E g \in DOMAIN handles \ Probed :
          h < g /\ handles[g].polledBy # {}

\* C15: a subscribe request is answered OK exactly when its path is
\* "stream", and PermissionDenied otherwise.
C15_SubscribeOnlyStream ==
    reply.op = "SubscribeStream" =>
        /\ reply.res = "OK" <=> reply.req = "stream"
        /\ reply.res # "OK" => reply.res = "PermissionDenied"

\* A subscribe request for "Stream" has been denied.
C15_Witness ==
    reply.op = "SubscribeStream" /\ reply.req = "Stream" /\ reply.res = "PermissionDenied"

\* C16: every publish request is answered PermissionDenied, and a
\* PublishStream call changes nothing of the loops, the consumers or the
\* process.
C16_PublishDenied ==
    [][Call("PublishStream") =>
          /\ reply'.res = "PermissionDenied"
          /\ UNCHANGED <<streamVars, handles, panic>>]_vars

\* A publish of garbage on the stream path has been denied while a loop
\* that has polled waits in its select.
C16_Witness ==
    /\ reply.op = "PublishStream"
    /\ reply.req = [Path |-> "stream", Data |-> "garbage"]
    /\ reply.res = "PermissionDenied"
    /\ \E s \in Streams : pc[s] = "select" /\ polls[s] > 0

\* C20: in the response of QueryData every query of the request has its
\* own entry; the entry of a malformed query is its error without frame,
\* the entry of any other query is one frame without error, which carries
\* the channel exactly when the query sets withStreaming; and a QueryData
\* call changes nothing of the loops, the consumers or the process.
C20_MalformedQueryIsolated ==
    [][Call("QueryData") =>
          /\ DOMAIN reply'.res = {reply'.req[i].RefID : i \in DOMAIN reply'.req}
          /\ \A i \in DOMAIN reply'.req :
                LET r == reply'.res[reply'.req[i].RefID]
                    j == reply'.req[i].JSON
                IN  IF j \in {QuerySyntax, QueryBadType}
                    THEN r.Error /\ r.Frames = <<>>
                    ELSE /\ ~r.Error
                         /\ Len(r.Frames) = 1
                         /\ r.Frames[1].Channel = Channel(UID) <=> j = QueryStreaming
                         /\ r.Frames[1].Channel # Channel(UID) => r.Frames[1].Channel = NoChannel
          /\ UNCHANGED <<streamVars, handles, panic>>]_vars

\* A request of a query that is no JSON and a streaming query has been
\* answered, with the error under "A" and the frame with its channel under
\* "B", while a loop that has polled waits in its select.
C20_Witness ==
    /\ reply.op = "QueryData"
    /\ Len(reply.req) = 2
    /\ reply.req[1].JSON = QuerySyntax /\ reply.req[2].JSON = QueryStreaming
    /\ reply.res["A"].Error /\ reply.res["A"].Frames = <<>>
    /\ ~reply.res["B"].Error /\ reply.res["B"].Frames[1].Channel = Channel(UID)
    /\ \E s \in Streams : pc[s] = "select" /\ polls[s] > 0

====
